---- MODULE Spec2Model ----
(***************************************************************************)
(* State-machine model of the YouTube transcript chat service:             *)
(*   src/main.py          /load_video, /chat, chunk_text, embed_texts      *)
(*   src/youtube_utils.py get_youtube_video_id, get_youtube_transcript     *)
(*   src/utils/formatResponse.py format_response_as_points                 *)
(*                                                                         *)
(* A Python str is a sequence of characters, so that slicing, strip(),      *)
(* split() and substring tests are computed, not assumed.  A character is  *)
(* the one-character string of it where TLA+ can write one (printable      *)
(* ASCII but the backquote, tab, line feed, form feed, carriage return)    *)
(* and the name "U+XXXX" of its code point otherwise: Chr(n) is character  *)
(* n.                                                                      *)
(***************************************************************************)
EXTENDS Integers, Sequences, FiniteSets, TLC

VARIABLES
    sessions,   \* main.py `sessions`: session id -> session record; its
                \* history is a reference to a list object of `heap`
    heap,       \* the list objects: reference -> list of (query, answer)
    gcs,        \* the objects of the GCS bucket: path -> text | NoBlob
    embedder,   \* which embedding model `embedder` is (fixed at start-up)
    req,        \* the requests received, in order of arrival: where each
                \* handler is (pc), its locals and, at the end, its response
    log,        \* ghost: session id -> the turns appended, in order
    saves,      \* ghost: the transcripts written to the cache, in order
    call,       \* pure-function harness: the call made
    ret         \* pure-function harness: the value returned

vars == <<sessions, heap, gcs, embedder, req, log, saves, call, ret>>

\* Python None and a blob that does not exist: neither is a text, whose
\* items are characters
None == <<"None">>
NoBlob == <<"NoBlob">>

NoCall == [endpoint |-> "none"]

-----------------------------------------------------------------------------
(* Bounds of the model *)

MaxTextLen == 7     \* longest text given to chunk_text in SpecChunk
MaxChunkSize == 4   \* largest chunk_size given to chunk_text in SpecChunk
MaxCalls == 2       \* requests per behaviour of Spec
MaxFetchLoads == 2  \* /load_video requests per behaviour of SpecFetch
MaxLoads == 2       \* /load_video requests per behaviour of SpecLoad
MaxCacheLoads == 1 \* /load_video requests that follow the first two in a behaviour of SpecCache
MaxHistChats == 3   \* /chat requests per behaviour of SpecHist
MaxRetrieveCalls == 1   \* requests per behaviour of SpecRetrieve
MaxRequests == 2    \* /chat requests per behaviour of SpecConc

(* Program constants *)

CHUNK_SIZE == 2000
CHUNK_OVERLAP == 500
TOP_K == 50
HISTORY_LIMIT == 40
PROMPT_TURNS == 6
MAX_VIDEO_LENGTH_SEC == 7200

-----------------------------------------------------------------------------
(* Strings *)

\* the printable ASCII characters, from code 32 to code 126 (a string of
\* TLA+ cannot hold the backquote, code 96)
Printable ==
    <<" ", "!", "\"", "#", "$", "%", "&", "'", "(", ")", "*", "+", ",",
      "-", ".", "/", "0", "1", "2", "3", "4", "5", "6", "7", "8", "9", ":",
      ";", "<", "=", ">", "?", "@", "A", "B", "C", "D", "E", "F", "G", "H",
      "I", "J", "K", "L", "M", "N", "O", "P", "Q", "R", "S", "T", "U", "V",
      "W", "X", "Y", "Z", "[", "\\", "]", "^", "_", "U+0060", "a", "b", "c",
      "d", "e", "f", "g", "h", "i", "j", "k", "l", "m", "n", "o", "p", "q",
      "r", "s", "t", "u", "v", "w", "x", "y", "z", "{", "|", "}", "~">>

HexDigit ==
    <<"0", "1", "2", "3", "4", "5", "6", "7", "8", "9", "A", "B", "C", "D", "E", "F">>

\* n in hexadecimal, on width digits or more
RECURSIVE HexOf(_, _)
HexOf(n, width) ==
    IF n = 0 /\ width <= 0 THEN ""
    ELSE HexOf(n \div 16, width - 1) \o HexDigit[(n % 16) + 1]

\* chr(n)
Chr(n) ==
    IF n \in 32..126 THEN Printable[n - 31]
    ELSE IF n = 9 THEN "\t"
    ELSE IF n = 10 THEN "\n"
    ELSE IF n = 12 THEN "\f"
    ELSE IF n = 13 THEN "\r"
    ELSE "U+" \o HexOf(n, 4)

\* the ASCII characters, by code
Ascii == <<>> \o [n \in 1..128 |-> Chr(n - 1)]

IsAscii(c) == \E n \in 1..128 : Ascii[n] = c

\* ord(c) of an ASCII character
Ord(c) == (CHOOSE n \in 1..128 : Ascii[n] = c) - 1

\* the characters str.strip() removes and the regex \s matches: those of
\* str.isspace().  Tab, LF, VT, FF, CR, FS, GS, RS, US, space, NEL, NBSP,
\* U+1680, U+2000..U+200A, U+2028, U+2029, U+202F, U+205F, U+3000
Whitespace ==
    {Chr(n) : n \in (9..13) \cup (28..32) \cup {133, 160, 5760} \cup (8192..8202)
                    \cup {8232, 8233, 8239, 8287, 12288}}

Min(S) == CHOOSE m \in S : \A n \in S : m <= n
Max(S) == CHOOSE m \in S : \A n \in S : m >= n

\* str.strip(): drop leading and trailing whitespace
Strip(s) ==
    LET nz == {i \in 1..Len(s) : s[i] \notin Whitespace}
    IN  IF nz = {} THEN <<>> ELSE SubSeq(s, Min(nz), Max(nz))

\* a slice bound as Python reads it: negative bounds count from the end,
\* and every bound is clamped to 0..len
SliceBound(i, n) ==
    IF i < 0 THEN (IF i + n < 0 THEN 0 ELSE i + n)
    ELSE IF i > n THEN n ELSE i

\* s[a:b]
Slice(s, a, b) == SubSeq(s, SliceBound(a, Len(s)) + 1, SliceBound(b, Len(s)))

\* sep.join(items)
RECURSIVE Join(_, _)
Join(items, sep) ==
    IF items = <<>> THEN <<>>
    ELSE IF Len(items) = 1 THEN items[1]
    ELSE items[1] \o sep \o Join(Tail(items), sep)

\* 0-based index of the first occurrence of pat in s, or -1 (str.find)
Find(s, pat) ==
    LET hits == {i \in 0..(Len(s) - Len(pat)) : SubSeq(s, i + 1, i + Len(pat)) = pat}
    IN  IF hits = {} THEN -1 ELSE Min(hits)

Contains(s, pat) == Find(s, pat) >= 0

\* s.split(sep)[0] and s.split(sep, 1)[1]
Before(s, sep) == IF Contains(s, sep) THEN SubSeq(s, 1, Find(s, sep)) ELSE s
After(s, sep) == SubSeq(s, Find(s, sep) + Len(sep) + 1, Len(s))

\* s.split(sep): every piece, empty pieces included
RECURSIVE Split(_, _)
Split(s, sep) ==
    IF Contains(s, sep) THEN <<Before(s, sep)>> \o Split(After(s, sep), sep)
    ELSE <<s>>

\* the last n items of a list: h[-n:]
LastN(h, n) == IF Len(h) > n THEN SubSeq(h, Len(h) - n + 1, Len(h)) ELSE h

\* the first n items of a list: h[:n]
FirstN(h, n) == IF Len(h) > n THEN SubSeq(h, 1, n) ELSE h

\* a value that is neither None nor empty
Truthy(v) == v # None /\ v # <<>>

-----------------------------------------------------------------------------
(* main.py: chunk_text *)

\* line 79: start = end - overlap
NextStartNoOverlap(end, overlap) == end

NextStart(end, overlap) == end - overlap

\* lines 73-79: the while loop (which does not end when overlap >= chunk_size)
RECURSIVE ChunkLoop(_, _, _, _, _)
ChunkLoop(text, start, chunk_size, overlap, chunks) ==
    IF ~ (start < Len(text)) THEN chunks
    ELSE LET end == start + chunk_size
             out == Append(chunks, Strip(Slice(text, start, end)))
         IN  IF end >= Len(text) THEN out
             ELSE ChunkLoop(text, NextStart(end, overlap), chunk_size, overlap, out)

ChunkText(text, chunk_size, overlap) ==
    IF Len(text) <= chunk_size THEN <<text>>
    ELSE ChunkLoop(text, 0, chunk_size, overlap, <<>>)

-----------------------------------------------------------------------------
(* youtube_utils.py: get_youtube_video_id *)

YOUTU_BE == <<"y", "o", "u", "t", "u", ".", "b", "e", "/">>
WATCH_V == <<"y", "o", "u", "t", "u", "b", "e", ".", "c", "o", "m", "/", "w",
    "a", "t", "c", "h", "?", "v", "=">>
EMBED == <<"y", "o", "u", "t", "u", "b", "e", ".", "c", "o", "m", "/", "e",
    "m", "b", "e", "d", "/">>
V_PATH == <<"y", "o", "u", "t", "u", "b", "e", ".", "c", "o", "m", "/", "v",
    "/">>

\* the alternatives of the fallback regex, in order
RegexPrefixes == <<
        <<"v", "=">>,
        <<"/", "v", "i", "d", "e", "o", "s", "/">>,
        <<"e", "m", "b", "e", "d", "/">>,
        <<"y", "o", "u", "t", "u", ".", "b", "e", "/">>,
        <<"/", "v", "/">>,
        <<"w", "a", "t", "c", "h", "?", "v", "=">>,
        <<".", "b", "e", "/">> >>

AsciiLetters == {Chr(n) : n \in (65..90) \cup (97..122)}
AsciiDigits == {Chr(n) : n \in 48..57}

\* [A-Za-z0-9_-]
IdClass == AsciiLetters \cup AsciiDigits \cup {"_", "-"}

ID_LEN == 11

\* str.lstrip(chars)
LStrip(s, chars) ==
    LET keep == {i \in 1..Len(s) : s[i] \notin chars}
    IN  IF keep = {} THEN <<>> ELSE SubSeq(s, Min(keep), Len(s))

\* str.replace(c, "") for every c of chars
Remove(s, chars) == SelectSeq(s, LAMBDA c : c \notin chars)

\* _hexdig
HexChars ==
    <<"0", "1", "2", "3", "4", "5", "6", "7", "8", "9", "A", "B", "C", "D", "E", "F",
      "a", "b", "c", "d", "e", "f">>

IsHex(c) == \E k \in 1..Len(HexChars) : HexChars[k] = c

\* the value of a digit of _hexdig
HexValue(c) ==
    LET i == CHOOSE k \in 1..Len(HexChars) : HexChars[k] = c
    IN  IF i <= 16 THEN i - 1 ELSE i - 7

\* ipaddress.IPv4Address(s) parses: four decimal octets of at most three
\* digits, none above 255, none with a leading zero
IsIPv4(s) ==
    LET octets == Split(s, <<".">>)
        D(c) == Ord(c) - 48
        Value(o) == IF Len(o) = 1 THEN D(o[1])
                    ELSE IF Len(o) = 2 THEN 10 * D(o[1]) + D(o[2])
                    ELSE 100 * D(o[1]) + 10 * D(o[2]) + D(o[3])
    IN  /\ Len(octets) = 4
        /\ \A k \in 1..4 :
            LET o == octets[k]
            IN  /\ o # <<>>
                /\ \A i \in 1..Len(o) : o[i] \in AsciiDigits
                /\ Len(o) <= 3
                /\ o = <<"0">> \/ o[1] # "0"
                /\ Value(o) <= 255

\* ipaddress.IPv6Address(host) parses
IsIPv6(host) ==
    LET scoped == Contains(host, <<"%">>)
        addr == Before(host, <<"%">>)
        scope == IF scoped THEN After(host, <<"%">>) ELSE <<>>
        fields == Split(addr, <<":">>)
        last == fields[Len(fields)]
        v4 == Contains(last, <<".">>)
        \* an IPv4 suffix stands for two hextets
        parts == IF v4 THEN SubSeq(fields, 1, Len(fields) - 1) \o << <<"0">>, <<"0">> >>
                 ELSE fields
        n == Len(parts)
        IsHextet(h) == h # <<>> /\ Len(h) <= 4 /\ \A k \in 1..Len(h) : IsHex(h[k])
        \* the empty parts other than the first and the last: each is a "::"
        skips == {i \in 2..(n - 1) : parts[i] = <<>>}
        skip == Min(skips)
        parts_hi == IF parts[1] = <<>> THEN skip - 2 ELSE skip - 1
        parts_lo == IF parts[n] = <<>> THEN n - skip - 1 ELSE n - skip
    IN  /\ scoped => (scope # <<>> /\ ~ Contains(scope, <<"%">>))
        /\ addr # <<>>
        /\ Len(fields) >= 3
        /\ v4 => IsIPv4(last)
        /\ n <= 9
        /\ Cardinality(skips) <= 1
        /\ IF skips # {}
           THEN /\ parts[1] = <<>> => parts_hi = 0
                /\ parts[n] = <<>> => parts_lo = 0
                /\ parts_hi + parts_lo <= 7
                /\ \A i \in 1..parts_hi : IsHextet(parts[i])
                /\ \A i \in (n - parts_lo + 1)..n : IsHextet(parts[i])
           ELSE /\ n = 8
                /\ \A i \in 1..n : IsHextet(parts[i])

\* re.match(r"\Av[a-fA-F0-9]+\..+\Z", host), for a host that starts with "v"
IsIPvFuture(host) ==
    LET others == {k \in 2..Len(host) : ~ IsHex(host[k])}
        dot == IF others = {} THEN Len(host) + 1 ELSE Min(others)
    IN  dot >= 3 /\ dot < Len(host) /\ host[dot] = "."

\* _check_bracketed_host does not raise
BracketedHostOk(host) ==
    IF host # <<>> /\ host[1] = "v" THEN IsIPvFuture(host) ELSE IsIPv6(host)

\* the characters NFKC normalisation turns into text that holds "/", "?",
\* "#", "@" or ":" (U+2047..U+2049, U+2100, U+2101, U+2105, U+2106, U+2A74,
\* U+FE13, U+FE16, U+FE55, U+FE56, U+FE5F, U+FE6B, U+FF03, U+FF0F, U+FF1A,
\* U+FF1F, U+FF20): _checknetloc raises on a host that holds one
NfkcDelimiters ==
    {Chr(n) : n \in {8263, 8264, 8265, 8448, 8449, 8453, 8454, 10868, 65043,
                     65046, 65109, 65110, 65119, 65131, 65283, 65295, 65306,
                     65311, 65312}}

\* urlsplit raises ValueError on this netloc
NetlocRaises(netloc) ==
    LET open == Contains(netloc, <<"[">>)
        close == Contains(netloc, <<"]">>)
    IN  \/ open # close
        \/ open /\ close /\ ~ BracketedHostOk(Before(After(netloc, <<"[">>), <<"]">>))
        \/ \E i \in 1..Len(netloc) : netloc[i] \in NfkcDelimiters

\* scheme_chars
SchemeChars == AsciiLetters \cup AsciiDigits \cup {"+", "-", "."}

\* urlsplit(url), as far as the query: the leading C0 control characters and
\* spaces are dropped, then every tab, CR and LF; a scheme ends at the first
\* ":" when a letter starts it and it holds scheme characters only; "//"
\* starts the netloc, which ends before the first "/", "?" or "#"; the
\* fragment starts at the first "#" of the rest and the query at the first
\* "?" before it.
UrlSplit(url) ==
    LET stripped == LStrip(url, {Chr(n) : n \in 0..32})
        cleaned == Remove(stripped, {"\t", "\r", "\n"})
        i == Find(cleaned, <<":">>)
        rest == IF i > 0 /\ cleaned[1] \in AsciiLetters
                        /\ \A j \in 1..i : cleaned[j] \in SchemeChars
                THEN SubSeq(cleaned, i + 2, Len(cleaned))
                ELSE cleaned
        slashes == Len(rest) >= 2 /\ rest[1] = "/" /\ rest[2] = "/"
        ends == {j \in 3..Len(rest) : rest[j] \in {"/", "?", "#"}}
        delim == IF ends = {} THEN Len(rest) + 1 ELSE Min(ends)
        netloc == IF slashes THEN SubSeq(rest, 3, delim - 1) ELSE <<>>
        tail == IF slashes THEN SubSeq(rest, delim, Len(rest)) ELSE rest
        u == Before(tail, <<"#">>)
    IN  [raises |-> NetlocRaises(netloc),
         query |-> IF Contains(u, <<"?">>) THEN After(u, <<"?">>) ELSE <<>>]

\* urlparse(url).query
UrlQuery(url) == UrlSplit(url).query

\* str.replace("+", " ")
PlusToSpace(s) == [i \in 1..Len(s) |-> IF s[i] = "+" THEN " " ELSE s[i]]

\* unquote_to_bytes of a run of ASCII characters: "%" and two hex digits
\* make one byte, every other character is its own byte
RECURSIVE UnquoteToBytes(_)
UnquoteToBytes(run) ==
    IF run = <<>> THEN <<>>
    ELSE IF run[1] = "%" /\ Len(run) >= 3 /\ IsHex(run[2]) /\ IsHex(run[3])
    THEN <<16 * HexValue(run[2]) + HexValue(run[3])>>
         \o UnquoteToBytes(SubSeq(run, 4, Len(run)))
    ELSE <<Ord(run[1])>> \o UnquoteToBytes(Tail(run))

\* bytes.decode("utf-8", "replace"): every well-formed sequence is its
\* character, every longest ill-formed prefix of one is U+FFFD
RECURSIVE Utf8Decode(_)
Utf8Decode(b) ==
    IF b = <<>> THEN <<>>
    ELSE LET c == b[1]
             In(i, lo, hi) == i <= Len(b) /\ b[i] >= lo /\ b[i] <= hi
             need == IF c < 128 THEN 1
                     ELSE IF c \in 194..223 THEN 2
                     ELSE IF c \in 224..239 THEN 3
                     ELSE IF c \in 240..244 THEN 4
                     ELSE 0
             lo2 == IF c = 224 THEN 160 ELSE IF c = 240 THEN 144 ELSE 128
             hi2 == IF c = 237 THEN 159 ELSE IF c = 244 THEN 143 ELSE 191
             ok2 == need >= 2 /\ In(2, lo2, hi2)
             ok3 == need >= 3 /\ ok2 /\ In(3, 128, 191)
             ok4 == need = 4 /\ ok3 /\ In(4, 128, 191)
             good == need = 1 \/ (need = 2 /\ ok2) \/ (need = 3 /\ ok3) \/ ok4
             used == IF good THEN need
                     ELSE IF ok3 THEN 3 ELSE IF ok2 THEN 2 ELSE 1
             point == IF ~good THEN 65533
                      ELSE IF need = 1 THEN c
                      ELSE IF need = 2 THEN (c - 192) * 64 + (b[2] - 128)
                      ELSE IF need = 3
                      THEN (c - 224) * 4096 + (b[2] - 128) * 64 + (b[3] - 128)
                      ELSE (c - 240) * 262144 + (b[2] - 128) * 4096
                           + (b[3] - 128) * 64 + (b[4] - 128)
         IN  <<Chr(point)>> \o Utf8Decode(SubSeq(b, used + 1, Len(b)))

\* unquote(s): every run of ASCII characters is unquoted to bytes and the
\* bytes decoded; the other characters stay
RECURSIVE Unquote(_)
Unquote(s) ==
    IF s = <<>> THEN <<>>
    ELSE IF ~IsAscii(s[1]) THEN <<s[1]>> \o Unquote(Tail(s))
    ELSE LET others == {i \in 1..Len(s) : ~IsAscii(s[i])}
             n == IF others = {} THEN Len(s) ELSE Min(others) - 1
         IN  Utf8Decode(UnquoteToBytes(SubSeq(s, 1, n)))
             \o Unquote(SubSeq(s, n + 1, Len(s)))

\* parse_qs(q).get("v", [None])[0]: of the name=value fields with a value,
\* names and values unquoted after "+" is made a space, the first value
\* named "v"
RECURSIVE FirstV(_)
FirstV(pairs) ==
    IF pairs = <<>> THEN None
    ELSE LET name_value == pairs[1]
             name == Unquote(PlusToSpace(Before(name_value, <<"=">>)))
             value == Unquote(PlusToSpace(After(name_value, <<"=">>)))
         IN  IF Contains(name_value, <<"=">>) /\ After(name_value, <<"=">>) # <<>>
                /\ name = <<"v">>
             THEN value
             ELSE FirstV(Tail(pairs))

ParseQsV(q) == FirstV(Split(q, <<"&">>))

\* url.split(marker)[1].split("?")[0].split("&")[0]
AfterMarker(url, marker) ==
    Before(Before(Split(url, marker)[2], <<"?">>), <<"&">>)

\* re.search(...): leftmost position where an alternative is followed by 11 id chars
RegexMatchAt(url, p) ==
    {k \in 1..Len(RegexPrefixes) :
        LET pre == RegexPrefixes[k]
            from == p + Len(pre)
        IN  /\ from + ID_LEN <= Len(url)
            /\ SubSeq(url, p + 1, from) = pre
            /\ \A j \in (from + 1)..(from + ID_LEN) : url[j] \in IdClass}

RegexSearch(url) ==
    LET hits == {p \in 0..Len(url) : RegexMatchAt(url, p) # {}}
    IN  IF hits = {} THEN None
        ELSE LET p == Min(hits)
                 from == p + Len(RegexPrefixes[Min(RegexMatchAt(url, p))])
             IN  SubSeq(url, from + 1, from + ID_LEN)

\* the function raises ValueError (line 56: urlparse does)
ValueError == <<"ValueError">>

GetYoutubeVideoId(url) ==
    IF url = <<>> THEN None
    ELSE IF Contains(url, YOUTU_BE) THEN AfterMarker(url, YOUTU_BE)
    ELSE IF Contains(url, WATCH_V)
    THEN IF UrlSplit(url).raises THEN ValueError ELSE ParseQsV(UrlQuery(url))
    ELSE IF Contains(url, EMBED) THEN AfterMarker(url, EMBED)
    ELSE IF Contains(url, V_PATH) THEN AfterMarker(url, V_PATH)
    ELSE RegexSearch(url)

-----------------------------------------------------------------------------
(* youtube_utils.py: the GCS helpers and the steps of                      *)
(* get_youtube_transcript.  What a third party does when it is asked is an *)
(* input of the step that asks it:                                         *)
(*   gcs_read   "ok" | "error"   blob.exists or download_as_text raises   *)
(*   captions   [kind, items]    what the captions API does                *)
(*   audio      <<how far the audio pipeline gets, yt.length>>             *)
(*   stt        [kind, parts]    what long_running_recognize does          *)
(*   gcs_write  "ok" | "error"   upload_from_string raises                 *)

GCS_TRANSCRIPT_PREFIX == <<"t", "r", "a", "n", "s", "c", "r", "i", "p", "t", "s">>
GCS_AUDIO_PREFIX == <<"a", "u", "d", "i", "o", "_", "u", "p", "l", "o", "a", "d", "s">>

GcsAudioPath(video_id) ==
    GCS_AUDIO_PREFIX \o <<"/">> \o video_id \o <<".", "f", "l", "a", "c">>

GcsTranscriptPath(video_id) ==
    GCS_TRANSCRIPT_PREFIX \o <<"/">> \o video_id \o <<".", "t", "x", "t">>

Flac == <<"flac">>   \* the content of an uploaded audio object

\* _fetch_transcript_from_gcs, line 107: blob.exists()
BlobExists(store, video_id) == store[GcsTranscriptPath(video_id)] # NoBlob

\* _fetch_transcript_from_gcs, line 109: blob.download_as_text(); no object
\* of the bucket is ever deleted, so the object is there
DownloadAsText(store, video_id) == store[GcsTranscriptPath(video_id)]

\* _save_transcript_to_gcs: overwrite; an error is printed and swallowed
SaveTranscriptToGcsNever(store, video_id, transcript, gcs_write) == store

SaveTranscriptToGcs(store, video_id, transcript, gcs_write) ==
    IF gcs_write = "error" THEN store
    ELSE [store EXCEPT ![GcsTranscriptPath(video_id)] = transcript]

\* _upload_file_to_gcs of the converted audio
UploadFileToGcs(store, object_path) == [store EXCEPT ![object_path] = Flac]

\* lines 194-216: the text the captions step ends with (empty: none)
CaptionsText(captions) ==
    IF captions.kind \in {"manual", "generated"}
    THEN Strip(Join(captions.items, <<" ">>))
    ELSE <<>>

\* _transcribe_from_gcs_uri
StripAll(parts) == [i \in 1..Len(parts) |-> Strip(parts[i])]

TranscribeFromGcsUri(stt) ==
    IF stt.kind = "error" THEN None
    ELSE LET transcript == Strip(Join(StripAll(stt.parts), <<" ">>))
         IN  IF transcript # <<>> THEN transcript ELSE None

\* line 224: the length guard
TooLong(length) == length # 0 /\ length > MAX_VIDEO_LENGTH_SEC

\* lines 221-258: does the audio reach GCS?  Every other outcome of the
\* pipeline (YouTube() raises, no stream, download or conversion fails, the
\* upload raises) returns None before speech-to-text is called.
AudioUploaded(audio) == audio[1] = "ok" /\ ~ TooLong(audio[2])

\* line 190: if cached
CachedUsableNever(cached) == FALSE

CachedUsable(cached) == Truthy(cached)

-----------------------------------------------------------------------------
(* main.py: embed_texts and the FAISS IndexFlatIP.                          *)
(* The embedding model is a third-party network.  The model stands for it  *)
(* a family of deterministic maps text -> raw vector, indexed by           *)
(* `embedder`; raw vectors have integer norms, so that normalisation is    *)
(* exact in fixed point: the float 1.0 is the integer UNIT.                *)

UNIT == 5

RawVectors ==
    << <<3, 4>>, <<4, 3>>, <<5, 0>>, <<0, 5>>, <<-3, 4>>, <<0, 0>>, <<6, 8>>, <<-4, -3>> >>

Count(text, c) == Cardinality({i \in 1..Len(text) : text[i] = c})

Embedder(text) ==
    LET code == Len(text) + embedder * Count(text, "a") + Count(text, "b")
                + (embedder + 1) * Count(text, "c")
    IN  RawVectors[(code % Len(RawVectors)) + 1]

Dot(u, v) == u[1] * v[1] + u[2] * v[2]

\* np.linalg.norm of a raw vector (exact for RawVectors)
Norm(v) == CHOOSE n \in 0..(Dot(v, v)) : n * n = Dot(v, v)

\* lines 92-94: a zero norm is replaced by 1e-9, and 0 / 1e-9 = 0
Normalize(v) ==
    IF Norm(v) = 0 THEN <<0, 0>>
    ELSE <<(v[1] * UNIT) \div Norm(v), (v[2] * UNIT) \div Norm(v)>>

EmbedTexts(texts) == [i \in 1..Len(texts) |-> Normalize(Embedder(texts[i]))]

\* IndexFlatIP.search orders by inner product, greatest first; faiss leaves
\* the order of equal scores open, and `tie` says which of two comes first
ComesBefore(scores, i, j, tie) ==
    \/ scores[i] > scores[j]
    \/ /\ scores[i] = scores[j]
       /\ IF tie = "low" THEN i < j ELSE i > j

\* the row I[0] of index.search(q_emb, k): the ids (0-based) of the k best
\* vectors, best first, and -1 where the index holds fewer than k vectors
IndexSearch(index, q, k, tie) ==
    LET n == Len(index)
        scores == <<>> \o [i \in 1..n |-> Dot(index[i], q)]
        rank == <<>> \o [i \in 1..n |->
                    Cardinality({j \in 1..n : ComesBefore(scores, j, i, tie)})]
    IN  [r \in 1..k |->
            IF r <= n THEN (CHOOSE i \in 1..n : rank[i] = r - 1) - 1 ELSE -1]

\* lines 156-162: the chunks of the ids found
KeepId(idx) == idx >= 0

RECURSIVE RetrievedChunks(_, _)
RetrievedChunks(id2chunk, ids) ==
    IF ids = <<>> THEN <<>>
    ELSE LET idx == ids[1]
             rest == RetrievedChunks(id2chunk, Tail(ids))
         IN  IF ~ KeepId(idx) THEN rest
             ELSE IF idx + 1 \in DOMAIN id2chunk /\ id2chunk[idx + 1] # <<>>
                  THEN <<id2chunk[idx + 1]>> \o rest
                  ELSE rest

\* line 155: the k given to index.search
SearchKOneLess == TOP_K - 1

SearchK == TOP_K

Retrieve(session, query, tie) ==
    LET q_emb == EmbedTexts(<<query>>)[1]
        ids == IndexSearch(session.index, q_emb, SearchK, tie)
    IN  [ids |-> ids, chunks |-> RetrievedChunks(session.id2chunk, ids)]

-----------------------------------------------------------------------------
(* utils/formatResponse.py: format_response_as_points *)

CONCLUSION == <<"C", "o", "n", "c", "l", "u", "s", "i", "o", "n", ":">>
LowerConclusion == <<"c", "o", "n", "c", "l", "u", "s", "i", "o", "n">>
UpperConclusion == <<"C", "O", "N", "C", "L", "U", "S", "I", "O", "N">>
Bold == <<"*", "*">>
ConclusionHeading ==
    <<"\n", "*", "*", "C", "o", "n", "c", "l", "u", "s", "i", "o", "n", "*", "*", ":", " ">>

\* the first digits of the blocks of ten decimal digits of Unicode, which
\* the regex \d matches: "0", U+0660, U+06F0, ...
DigitBlocks ==
    {48, 1632, 1776, 1984, 2406, 2534, 2662, 2790, 2918, 3046, 3174, 3302,
     3430, 3558, 3664, 3792, 3872, 4160, 4240, 6112, 6160, 6470, 6608,
     6784, 6800, 6992, 7088, 7232, 7248, 42528, 43216, 43264, 43472, 43504,
     43600, 44016, 65296, 66720, 68912, 69734, 69872, 69942, 70096, 70384,
     70736, 70864, 71248, 71360, 71472, 71904, 72016, 72784, 73040, 73120,
     92768, 92864, 93008, 120782, 120792, 120802, 120812, 120822, 123200,
     123632, 125264, 130032}

Digits == {Chr(zero + i) : zero \in DigitBlocks, i \in 0..9}

\* section.lower().startswith("conclusion").  str.lower() makes A-Z a-z, and
\* no other character becomes a letter of "conclusion" alone (U+0130
\* becomes "i" and U+0307), so the test is: the first ten characters are
\* the letters of "conclusion", in either case.
LowerStartsWithConclusion(section) ==
    /\ Len(section) >= Len(LowerConclusion)
    /\ \A i \in 1..Len(LowerConclusion) :
            section[i] \in {LowerConclusion[i], UpperConclusion[i]}

\* \d+\.\s matches at offset p
NumberedAt(t, p) ==
    \E n \in 1..(Len(t) - p) :
        /\ \A j \in (p + 1)..(p + n) : t[j] \in Digits
        /\ p + n + 2 <= Len(t)
        /\ t[p + n + 1] = "."
        /\ t[p + n + 2] \in Whitespace

ConclusionAt(t, p) ==
    p + Len(CONCLUSION) <= Len(t) /\ SubSeq(t, p + 1, p + Len(CONCLUSION)) = CONCLUSION

\* re.split on the zero-width lookahead: cut before every match
SplitPoints(t) == {p \in 0..(Len(t) - 1) : NumberedAt(t, p) \/ ConclusionAt(t, p)}

RECURSIVE CutAt(_, _, _)
CutAt(t, from, points) ==
    IF points = {} THEN <<Slice(t, from, Len(t))>>
    ELSE LET p == Min(points)
         IN  <<Slice(t, from, p)>> \o CutAt(t, p, points \ {p})

FormatSection(section) ==
    IF NumberedAt(section, 0)
    THEN IF Contains(section, <<":">>)
         THEN Bold \o Strip(Before(section, <<":">>)) \o Bold \o <<":", " ">>
              \o Strip(After(section, <<":">>))
         ELSE Bold \o Strip(section) \o Bold
    ELSE IF LowerStartsWithConclusion(section)
    THEN ConclusionHeading \o Strip(Slice(section, Len(CONCLUSION), Len(section)))
    ELSE section

RECURSIVE FormatSections(_)
FormatSections(sections) ==
    IF sections = <<>> THEN <<>>
    ELSE LET section == Strip(sections[1])
             rest == FormatSections(Tail(sections))
         IN  IF section = <<>> THEN rest ELSE <<FormatSection(section)>> \o rest

FormatResponseAsPoints(text) ==
    LET t == Strip(text)
    IN  Join(FormatSections(CutAt(t, 0, SplitPoints(t))), <<"\n", "\n">>)

-----------------------------------------------------------------------------
(* The URLs requests carry *)

Video1 == <<"a", "b", "c", "d", "e", "f", "g", "h", "i", "j", "1">>
Video2 == <<"x", "y", "z">>

HTTPS == <<"h", "t", "t", "p", "s", ":", "/", "/">>
WWW == <<"w", "w", "w", ".">>

UrlEmpty == <<>>
\* https://youtu.be/abcdefghij1?t=1
UrlShort1 == HTTPS \o YOUTU_BE \o Video1 \o <<"?", "t", "=", "1">>
\* https://youtu.be/  (an empty id)
UrlShortNoId == HTTPS \o YOUTU_BE
\* https://www.youtube.com/watch?v=xyz&t=1
UrlWatch2 == HTTPS \o WWW \o WATCH_V \o Video2 \o <<"&", "t", "=", "1">>
\* https://www.youtube.com/watch?v=  (a blank value: no id)
UrlWatchBlank == HTTPS \o WWW \o WATCH_V
\* https://www.youtube.com/watch?t=1&v=abcdefghij1  (found by the regex)
UrlRegex1 ==
    HTTPS \o WWW \o <<"y", "o", "u", "t", "u", "b", "e", ".", "c", "o", "m", "/", "w", "a", "t", "c", "h", "?", "t", "=", "1", "&", "v", "=">>
    \o Video1
\* https://www.youtube.com/embed/xyz?x
UrlEmbed2 == HTTPS \o WWW \o EMBED \o Video2 \o <<"?", "x">>
\* https://www.youtube.com/v/xyz&x
UrlV2 == HTTPS \o WWW \o V_PATH \o Video2 \o <<"&", "x">>
\* https://www.youtube.com/watch?v=&%76=abcdefghij%31  (a blank field, then
\* the id under an encoded name, its last character encoded)
UrlWatchEncoded ==
    HTTPS \o WWW \o WATCH_V \o <<"&", "%", "7", "6", "=">> \o SubSeq(Video1, 1, 10)
    \o <<"%", "3", "1">>
\* https://www.youtube.com/watch?v=<tab>  (blank once urlparse drops the tab)
UrlWatchTab == HTTPS \o WWW \o WATCH_V \o <<"\t">>
\* https://[youtube.com/watch?v=xyz  (urlparse raises: "[" without "]")
UrlWatchBracket == HTTPS \o <<"[">> \o WATCH_V \o Video2
\* https://example.com/v/xyz  (no pattern, no 11-character id)
UrlOther == HTTPS \o <<"e", "x", "a", "m", "p", "l", "e", ".", "c", "o", "m", "/", "v", "/">> \o Video2

Urls == {UrlEmpty, UrlShort1, UrlShortNoId, UrlWatch2, UrlWatchBlank, UrlRegex1,
         UrlEmbed2, UrlV2, UrlWatchEncoded, UrlWatchTab, UrlWatchBracket, UrlOther}

Videos == {Video1, Video2}

\* get_youtube_video_id over the URLs of the model, computed once
VideoIdOf == [url \in Urls |-> GetYoutubeVideoId(url)]

-----------------------------------------------------------------------------
(* main.py: the request handlers.  load_video and chat are plain defs,     *)
(* which FastAPI runs on worker threads, and nothing locks `sessions`, a   *)
(* session or the bucket.  A handler is the sequence of its accesses to    *)
(* that state and of its calls to third parties, one action each; what it  *)
(* computes in between belongs to the action it follows.  Any number of    *)
(* requests may be between two of their actions.                           *)

NoBody == [detail |-> "none"]

\* the requests that have been answered
Finished == {r \in DOMAIN req : req[r].pc = "done"}

Idle == Finished = DOMAIN req

\* the /load_video requests whose call of get_youtube_transcript has
\* returned, or that made none
Returned ==
    {r \in DOMAIN req : req[r].endpoint = "/load_video"
                            /\ req[r].pc \in {"store", "done"}}

\* the list session["history"] names
Hist(s) == heap[sessions[s].history]

\* lines 127-138: the session a successful /load_video stores
NewSession(vid, chunks, list) ==
    [index |-> EmbedTexts(chunks),
     id2chunk |-> chunks,
     history |-> list,
     meta |-> [video_id |-> vid, n_chunks |-> Len(chunks)]]

\* str(uuid.uuid4()): an id no session has
FreshId == Cardinality(DOMAIN sessions) + 1

\* line 101: if not vid
ValidVideoIdNotNone(vid) == vid # None

ValidVideoId(vid) == Truthy(vid)

\* lines 130-138: sessions[session_id] = {...}
StoreSession(store, session_id, session) == (session_id :> session) @@ store

\* line 109
UNAVAILABLE_REASON ==
    "No captions and Whisper fallback failed or file too large/unsupported"

Reply(q, r, status, body) ==
    [q EXCEPT ![r].pc = "done", ![r].status = status, ![r].body = body]

\* lines 105-111: get_youtube_transcript returned None
Unavailable(q, r) ==
    Reply(q, r, 200, [status |-> "transcript_unavailable",
                      reason |-> UNAVAILABLE_REASON,
                      video_id |-> q[r].vid])

\* line 100: get_youtube_video_id raises and nothing catches it; the
\* framework answers for the handler
INTERNAL_SERVER_ERROR == "Internal Server Error"

\* main.py lines 100-104: the id is extracted from the URL
LoadArrive(url) ==
    LET vid == VideoIdOf[url]
        new == [endpoint |-> "/load_video", pc |-> "cache", vid |-> vid, transcript |-> None, source |-> "none",
                contacted |-> <<>>,
                got |-> [cache |-> None, captions |-> None, stt |-> None],
                gcs_read |-> "none", gcs_write |-> "none", saved |-> <<>>,
                session_id |-> 0, before |-> Returned, status |-> 0,
                body |-> NoBody]
        r == Len(req) + 1
    IN  /\ req' = IF vid = ValueError
                  THEN Reply(Append(req, new), r, 500,
                             [detail |-> INTERNAL_SERVER_ERROR])
                  ELSE IF ValidVideoId(vid) THEN Append(req, new)
                  ELSE Reply(Append(req, new), r, 400,
                             [detail |-> "Invalid YouTube URL"])
        /\ UNCHANGED <<sessions, heap, gcs, embedder, log, saves, call, ret>>

\* youtube_utils.py line 107, called from line 189: blob.exists().  A lookup
\* that raises (lines 110-112) and an object that is not there give None,
\* and the captions are next
LoadCacheExists(r, gcs_read) ==
    LET q == [req EXCEPT ![r].contacted = <<"gcs">>, ![r].gcs_read = gcs_read]
    IN  /\ req[r].pc = "cache"
        /\ req' = IF gcs_read = "ok" /\ BlobExists(gcs, req[r].vid)
                  THEN [q EXCEPT ![r].pc = "download"]
                  ELSE [q EXCEPT ![r].pc = "captions"]
        /\ UNCHANGED <<sessions, heap, gcs, embedder, log, saves, call, ret>>

\* youtube_utils.py line 109 and lines 189-191: blob.download_as_text(), a
\* second call of the bucket, which reads what the object holds by then
LoadCacheDownload(r, gcs_read) ==
    LET cached == IF gcs_read = "error" THEN None
                  ELSE DownloadAsText(gcs, req[r].vid)
        q == [req EXCEPT ![r].got.cache = cached, ![r].gcs_read = gcs_read]
    IN  /\ req[r].pc = "download"
        /\ req' = IF CachedUsable(cached)
                  THEN [q EXCEPT ![r].transcript = cached, ![r].source = "cache",
                                 ![r].pc = "store"]
                  ELSE [q EXCEPT ![r].pc = "captions"]
        /\ UNCHANGED <<sessions, heap, gcs, embedder, log, saves, call, ret>>

\* youtube_utils.py lines 194-216, up to the save: the captions API is asked
LoadCaptions(r, captions) ==
    LET text == CaptionsText(captions)
        q == [req EXCEPT ![r].contacted = Append(@, "captions"),
                         ![r].got.captions = text]
    IN  /\ req[r].pc = "captions"
        /\ req' = IF text # <<>>
                  THEN [q EXCEPT ![r].transcript = text, ![r].source = "captions",
                                 ![r].pc = "save"]
                  ELSE [q EXCEPT ![r].pc = "audio"]
        /\ UNCHANGED <<sessions, heap, gcs, embedder, log, saves, call, ret>>

\* youtube_utils.py lines 220-258: the audio is fetched, converted and
\* uploaded to the bucket
LoadAudio(r, audio) ==
    LET q == [req EXCEPT ![r].contacted = Append(@, "audio")]
    IN  /\ req[r].pc = "audio"
        /\ IF AudioUploaded(audio)
           THEN /\ gcs' = UploadFileToGcs(gcs, GcsAudioPath(req[r].vid))
                /\ req' = [q EXCEPT ![r].pc = "stt"]
           ELSE /\ gcs' = gcs
                /\ req' = Unavailable(q, r)
        /\ UNCHANGED <<sessions, heap, embedder, log, saves, call, ret>>

\* youtube_utils.py lines 261-266: speech-to-text on the uploaded audio
LoadTranscribe(r, stt) ==
    LET transcript == TranscribeFromGcsUri(stt)
        q == [req EXCEPT ![r].contacted = Append(@, "stt"),
                         ![r].got.stt = transcript]
    IN  /\ req[r].pc = "stt"
        /\ req' = IF Truthy(transcript)
                  THEN [q EXCEPT ![r].transcript = transcript, ![r].source = "stt",
                                 ![r].pc = "save"]
                  ELSE Unavailable(q, r)
        /\ UNCHANGED <<sessions, heap, gcs, embedder, log, saves, call, ret>>

\* youtube_utils.py lines 211-212 and 263-264: the transcript is written to
\* the cache and returned
LoadSave(r, gcs_write) ==
    /\ req[r].pc = "save"
    /\ gcs' = SaveTranscriptToGcs(gcs, req[r].vid, req[r].transcript, gcs_write)
    /\ saves' = IF gcs_write = "ok"
                THEN Append(saves, [by |-> r, vid |-> req[r].vid,
                                    text |-> req[r].transcript])
                ELSE saves
    /\ req' = [req EXCEPT ![r].saved = <<req[r].transcript>>,
                          ![r].gcs_write = gcs_write, ![r].pc = "store"]
    /\ UNCHANGED <<sessions, heap, embedder, log, call, ret>>

\* main.py lines 114-140: the transcript is chunked, embedded and indexed,
\* and the session stored
LoadStore(r) ==
    LET chunks == ChunkText(req[r].transcript, CHUNK_SIZE, CHUNK_OVERLAP)
    IN  /\ req[r].pc = "store"
        /\ IF chunks = <<>>
           THEN /\ req' = Reply(req, r, 500, [detail |-> "Failed to chunk transcript"])
                /\ UNCHANGED <<sessions, heap, log>>
           ELSE /\ heap' = Append(heap, <<>>)
                /\ sessions' = StoreSession(sessions, FreshId,
                                            NewSession(req[r].vid, chunks, Len(heap) + 1))
                /\ log' = (FreshId :> <<>>) @@ log
                /\ req' = Reply([req EXCEPT ![r].session_id = FreshId], r, 200,
                                [session_id |-> FreshId, n_chunks |-> Len(chunks)])
        /\ UNCHANGED <<gcs, embedder, saves, call, ret>>

\* line 195: session["history"][-40:]
KeepFirst(history) == FirstN(history, HISTORY_LIMIT)

KeepLast(history) == LastN(history, HISTORY_LIMIT)

\* line 187: answer = resp.text.strip()
AnswerOf(text) == Strip(text)

\* line 149: query = request.query.strip()
QueryOf(raw) == Strip(raw)

\* line 192: list.append on the list object `list`
AppendToAll(lists, list, turn) == [i \in DOMAIN lists |-> Append(lists[i], turn)]

AppendTo(lists, list, turn) == [lists EXCEPT ![list] = Append(@, turn)]

\* lines 188-189: the LLM call failed, nothing is recorded
AfterLlmErrorRecording(lists, list, query) ==
    [lists EXCEPT ![list] = Append(@, <<query, <<>>>>)]

AfterLlmError(lists, list, query) == lists

\* line 194: len(session["history"]) > 40
OverLimitNever(history) == FALSE

OverLimit(history) == Len(history) > HISTORY_LIMIT

\* lines 145-162: the session is looked up, the query stripped and embedded,
\* the index searched.  (A session's index and id2chunk never change.)
ChatArrive(session_id, raw_query, tie) ==
    LET query == QueryOf(raw_query)
        new == [endpoint |-> "/chat", pc |-> "prompt", session_id |-> session_id,
                raw_query |-> raw_query, query |-> query, q_emb |-> None,
                ids |-> <<>>, retrieved |-> <<>>, prompt_history |-> <<>>,
                llm_kind |-> "none", llm_text |-> None, answer |-> None, list |-> 0, sliced |-> <<>>,
                writes |-> 0, status |-> 0, body |-> NoBody]
        r == Len(req) + 1
    IN  /\ req' =
            IF session_id \notin DOMAIN sessions
            THEN Reply(Append(req, new), r, 404, [detail |-> "Session not found"])
            ELSE IF query = <<>>
            THEN Reply(Append(req, new), r, 400, [detail |-> "Empty query"])
            ELSE LET found == Retrieve(sessions[session_id], query, tie)
                 IN  Append(req, [new EXCEPT !.q_emb = EmbedTexts(<<query>>)[1],
                                             !.ids = found.ids,
                                             !.retrieved = found.chunks])
        /\ UNCHANGED <<sessions, heap, gcs, embedder, log, saves, call, ret>>

\* lines 165-170: the last PROMPT_TURNS turns go into the prompt.  (The list
\* is read for `if session["history"]` and again for the slice; a history
\* that is not empty stays so, and the step is the second read.)
ChatReadHistory(r) ==
    /\ req[r].pc = "prompt"
    /\ req' = [req EXCEPT ![r].pc = "llm",
                          ![r].prompt_history =
                              LastN(Hist(req[r].session_id), PROMPT_TURNS)]
    /\ UNCHANGED <<sessions, heap, gcs, embedder, log, saves, call, ret>>

\* lines 185-189: the LLM call
ChatCallLlm(r, llm) ==
    /\ req[r].pc = "llm"
    /\ IF llm.kind = "error"
       THEN /\ req' = Reply([req EXCEPT ![r].llm_kind = "error"], r, 500,
                            [detail |-> "LLM error: " \o llm.error])
            /\ heap' = AfterLlmError(heap, sessions[req[r].session_id].history,
                                     req[r].query)
       ELSE /\ req' = [req EXCEPT ![r].pc = "load", ![r].llm_kind = "ok",
                                  ![r].llm_text = llm.text,
                                  ![r].answer = AnswerOf(llm.text)]
            /\ heap' = heap
    /\ UNCHANGED <<sessions, gcs, embedder, log, saves, call, ret>>

\* line 192, session["history"]: the list the turn will be appended to
ChatLoadHistory(r) ==
    /\ req[r].pc = "load"
    /\ req' = [req EXCEPT ![r].pc = "append",
                          ![r].list = sessions[req[r].session_id].history]
    /\ UNCHANGED <<sessions, heap, gcs, embedder, log, saves, call, ret>>

\* line 192, .append((query, answer)), on the list loaded
ChatAppend(r) ==
    LET turn == <<req[r].query, req[r].answer>>
    IN  /\ req[r].pc = "append"
        /\ heap' = AppendTo(heap, req[r].list, turn)
        /\ log' = [log EXCEPT ![req[r].session_id] =
                        Append(@, [query |-> req[r].raw_query,
                                   text |-> req[r].llm_text,
                                   turn |-> turn, by |-> r])]
        /\ req' = [req EXCEPT ![r].pc = "check", ![r].writes = @ + 1]
        /\ UNCHANGED <<sessions, gcs, embedder, saves, call, ret>>

\* line 194: len(session["history"]) > 40
ChatCheck(r) ==
    /\ req[r].pc = "check"
    /\ req' = [req EXCEPT ![r].pc = IF OverLimit(Hist(req[r].session_id))
                                    THEN "slice" ELSE "format"]
    /\ UNCHANGED <<sessions, heap, gcs, embedder, log, saves, call, ret>>

\* line 195, right-hand side: session["history"][-40:] is a new list
ChatSlice(r) ==
    /\ req[r].pc = "slice"
    /\ req' = [req EXCEPT ![r].pc = "assign",
                          ![r].sliced = KeepLast(Hist(req[r].session_id))]
    /\ UNCHANGED <<sessions, heap, gcs, embedder, log, saves, call, ret>>

\* line 195, the assignment: session["history"] names the new list
ChatStore(r) ==
    /\ req[r].pc = "assign"
    /\ heap' = Append(heap, req[r].sliced)
    /\ sessions' = [sessions EXCEPT ![req[r].session_id].history = Len(heap) + 1]
    /\ req' = [req EXCEPT ![r].pc = "format", ![r].writes = @ + 1]
    /\ UNCHANGED <<gcs, embedder, log, saves, call, ret>>

\* lines 197-199
ChatReturn(r) ==
    /\ req[r].pc = "format"
    /\ req' = Reply(req, r, 200,
                    [answer |-> FormatResponseAsPoints(req[r].answer),
                     retrieved_count |-> Len(req[r].retrieved)])
    /\ UNCHANGED <<sessions, heap, gcs, embedder, log, saves, call, ret>>

-----------------------------------------------------------------------------
(* The third-party outcomes the model draws from, and the steps of the     *)
(* requests in progress                                                    *)

GcsPaths == {GcsTranscriptPath(v) : v \in Videos} \cup {GcsAudioPath(v) : v \in Videos}

NoItems == [kind |-> "none", items |-> <<>>]
TextItems == [kind |-> "manual", items |-> <<<<"a", "b">>, <<"c", "\t">>>>]
SttError == [kind |-> "error", parts |-> <<>>]
SttParts == [kind |-> "ok", parts |-> <<<<"d", "\r">>, <<"\n", "e">>>>]

\* blob.exists / download_as_text and upload_from_string: done, or raising
GcsOutcomes == {"ok", "error"}

CaptionOutcomes ==
    {[kind |-> "list_error", items |-> <<>>],
     NoItems,
     [kind |-> "fetch_error", items |-> <<<<"a">>>>],
     [kind |-> "generated", items |-> <<<<"\t">>, <<"\r">>>>],
     TextItems}

AudioOutcomes ==
    {<<"yt_error", 0>>, <<"convert_fail", MAX_VIDEO_LENGTH_SEC>>,
     <<"ok", MAX_VIDEO_LENGTH_SEC + 1>>, <<"ok", MAX_VIDEO_LENGTH_SEC>>}

SttOutcomes == {SttError, [kind |-> "ok", parts |-> <<<<"\t">>>>], SttParts}

LlmErrors == {"boom"}

\* an answer of two sections, "CONCLUSION" and "1.<tab>x:y", between
\* whitespace of several kinds
LlmText ==
    <<" ">> \o UpperConclusion \o <<"\r", "1", ".", "\t", "x", ":", "y", "\f", "\n">>

LlmOutcomes ==
    {[kind |-> "error", error |-> e] : e \in LlmErrors}
    \cup {[kind |-> "ok", text |-> LlmText]}

CacheChecked == \E r \in DOMAIN req, gcs_read \in GcsOutcomes : LoadCacheExists(r, gcs_read)
CacheDownloaded == \E r \in DOMAIN req, gcs_read \in GcsOutcomes : LoadCacheDownload(r, gcs_read)
CaptionsAsked == \E r \in DOMAIN req, captions \in CaptionOutcomes : LoadCaptions(r, captions)
AudioFetched == \E r \in DOMAIN req, audio \in AudioOutcomes : LoadAudio(r, audio)
Transcribed == \E r \in DOMAIN req, stt \in SttOutcomes : LoadTranscribe(r, stt)
CacheWritten == \E r \in DOMAIN req, gcs_write \in GcsOutcomes : LoadSave(r, gcs_write)
SessionStored == \E r \in DOMAIN req : LoadStore(r)

LoadSteps ==
    \/ CacheChecked
    \/ CacheDownloaded
    \/ CaptionsAsked
    \/ AudioFetched
    \/ Transcribed
    \/ CacheWritten
    \/ SessionStored

PromptBuilt == \E r \in DOMAIN req : ChatReadHistory(r)
LlmCalled == \E r \in DOMAIN req, llm \in LlmOutcomes : ChatCallLlm(r, llm)
HistoryLoaded == \E r \in DOMAIN req : ChatLoadHistory(r)
TurnAppended == \E r \in DOMAIN req : ChatAppend(r)
LengthChecked == \E r \in DOMAIN req : ChatCheck(r)
HistorySliced == \E r \in DOMAIN req : ChatSlice(r)
HistoryAssigned == \E r \in DOMAIN req : ChatStore(r)
ChatAnswered == \E r \in DOMAIN req : ChatReturn(r)

ChatSteps ==
    \/ PromptBuilt
    \/ LlmCalled
    \/ HistoryLoaded
    \/ TurnAppended
    \/ LengthChecked
    \/ HistorySliced
    \/ HistoryAssigned
    \/ ChatAnswered

\* the turns of n earlier /chat requests, handled one after the other, and
\* the history they leave
HistTurn(j) == [query |-> <<IF j % 2 = 1 THEN "a" ELSE "b">>, text |-> <<"x">>]

OldLog(n) ==
    [j \in 1..n |-> [query |-> HistTurn(j).query, text |-> HistTurn(j).text,
                     turn |-> <<Strip(HistTurn(j).query), Strip(HistTurn(j).text)>>,
                     by |-> 0]]

OldHistory(n) == LastN([j \in 1..n |-> OldLog(n)[j].turn], HISTORY_LIMIT)

\* nothing in the bucket, no request yet
Quiet ==
    /\ gcs = [path \in GcsPaths |-> NoBlob]
    /\ req = <<>>
    /\ saves = <<>>
    /\ call = NoCall
    /\ ret = NoCall

\* the step is one of request r
Moved(r) == r \in DOMAIN req' /\ (r \notin DOMAIN req \/ req'[r] # req[r])

Arrived(r) == r \in DOMAIN req' /\ r \notin DOMAIN req

-----------------------------------------------------------------------------
(* Spec: the session store under overlapping /load_video and /chat         *)
(* requests.  The process starts with no session; so that a history can    *)
(* reach HISTORY_LIMIT within the bound, a behaviour may also start from   *)
(* the state one /load_video and HISTORY_LIMIT /chat requests leave.       *)

Init ==
    /\ sessions = <<>>
    /\ heap = <<>>
    /\ log = <<>>
    /\ embedder \in {1, 2}
    /\ Quiet

StoreUrls == {UrlShort1, UrlShortNoId}
StoreQueries == {<<"\t", "\r">>, <<"\t", "a">>}
StoreSessionIds == {1, 2}

InitStore ==
    /\ embedder = 1
    /\ Quiet
    /\ \/ /\ sessions = <<>>
          /\ heap = <<>>
          /\ log = <<>>
       \/ /\ sessions = (1 :> NewSession(Video2, <<<<"a", "b", " ", "c">>>>, 1))
          /\ heap = <<OldHistory(HISTORY_LIMIT)>>
          /\ log = (1 :> OldLog(HISTORY_LIMIT))

LoadVideoRequest ==
    /\ Len(req) < MaxCalls
    /\ \E url \in StoreUrls : LoadArrive(url)

ChatRequest ==
    /\ Len(req) < MaxCalls
    /\ \E session_id \in StoreSessionIds, raw_query \in StoreQueries :
            ChatArrive(session_id, raw_query, "low")

Next ==
    \/ LoadVideoRequest
    \/ ChatRequest
    \/ LoadSteps
    \/ ChatSteps

Spec == InitStore /\ [][Next]_vars

SameButHistory(new, old) == [new EXCEPT !.history = old.history] = old

AllWhitespace(text) == \A i \in 1..Len(text) : text[i] \in Whitespace

\* the /load_video request created a session
Created(q) == q.endpoint = "/load_video" /\ q.session_id # 0

\* the step leaves session s and its history as they were
Untouched(s) ==
    /\ s \in DOMAIN sessions'
    /\ sessions'[s] = sessions[s]
    /\ heap'[sessions'[s].history] = heap[sessions[s].history]

\* C4: a successful /load_video adds exactly one session, under an id that
\* was not present, with empty history, and leaves every other session as it
\* was; /chat adds and removes no session and changes nothing but the history
\* of the session it names: in every step of a request, whatever other
\* requests are in progress.
C4_SessionsIsolated ==
    [][\A r \in DOMAIN req' : Moved(r) =>
        LET q == req'[r]
        IN  IF q.endpoint = "/load_video"
            THEN \/ /\ ~ Created(q)
                    /\ sessions' = sessions
                    /\ heap' = heap
                 \/ /\ Created(q)
                    /\ q.status = 200
                    /\ q.body.session_id = q.session_id
                    /\ q.session_id \notin DOMAIN sessions
                    /\ DOMAIN sessions' = DOMAIN sessions \cup {q.session_id}
                    /\ heap'[sessions'[q.session_id].history] = <<>>
                    /\ \A s \in DOMAIN sessions : Untouched(s)
            ELSE /\ DOMAIN sessions' = DOMAIN sessions
                 /\ \A s \in DOMAIN sessions :
                        IF s = q.session_id
                        THEN SameButHistory(sessions'[s], sessions[s])
                        ELSE Untouched(s)
      ]_vars

\* two sessions: a /chat request has recorded its turn in one while the other,
\* created by a /load_video request, is untouched
C4_Witness ==
    \E r \in DOMAIN req, s2 \in DOMAIN sessions :
        /\ req[r].endpoint = "/chat"
        /\ req[r].status = 200
        /\ s2 # req[r].session_id
        /\ Hist(s2) = <<>>
        /\ \E i \in 1..Len(Hist(req[r].session_id)) :
                Hist(req[r].session_id)[i] = <<req[r].query, req[r].answer>>

LlmErrorDetails == {"LLM error: " \o e : e \in LlmErrors}

\* C5: /chat answers 404 "Session not found" for an unknown session id, 400
\* "Empty query" for an empty or whitespace-only query, 500 when the LLM call
\* fails, and a request so answered has changed neither the sessions nor any
\* history in any of its steps.
C5_ChatFailures ==
    [][\A r \in DOMAIN req' : (Moved(r) /\ req'[r].endpoint = "/chat") =>
        LET q == req'[r]
        IN  /\ (Arrived(r) /\ q.session_id \notin DOMAIN sessions) =>
                /\ q.pc = "done"
                /\ q.status = 404
                /\ q.body.detail = "Session not found"
            /\ (Arrived(r) /\ q.session_id \in DOMAIN sessions
                    /\ AllWhitespace(q.raw_query)) =>
                /\ q.pc = "done"
                /\ q.status = 400
                /\ q.body.detail = "Empty query"
            /\ q.llm_kind = "error" =>
                /\ q.pc = "done"
                /\ q.status = 500
                /\ q.body.detail \in LlmErrorDetails
            /\ (q.pc = "done" /\ q.status \in {404, 400, 500}) =>
                /\ sessions' = sessions
                /\ heap' = heap
                /\ log' = log
                /\ q.writes = 0
      ]_vars

\* the LLM call failed on a session that already holds a turn
C5_Witness ==
    \E r \in DOMAIN req :
        /\ req[r].endpoint = "/chat"
        /\ req[r].status = 500
        /\ req[r].llm_kind = "error"
        /\ Hist(req[r].session_id) # <<>>

-----------------------------------------------------------------------------
(* SpecLoad: overlapping /load_video requests on URLs of every kind: with  *)
(* an id, with an empty id, with none, and one urlparse raises on.  The    *)
(* bucket is empty at first; it can fail to be read.                       *)

LoadUrls == {UrlShort1, UrlShortNoId, UrlWatchTab, UrlWatchBracket}

InitLoad == InitStore

LoadOnlyRequest ==
    /\ Len(req) < MaxLoads
    /\ \E url \in LoadUrls : LoadArrive(url)

NextLoad == LoadOnlyRequest \/ LoadSteps

SpecLoad == InitLoad /\ [][NextLoad]_vars

\* C6: /load_video answers 400 "Invalid YouTube URL" without asking for a
\* transcript when the id extracted is None or empty, answers the body
\* status = "transcript_unavailable" with the video id when the transcript is
\* None, and in both cases has left the sessions as they were; only the last
\* step of a request that got a transcript changes the sessions.  (A request
\* whose URL makes get_youtube_video_id raise is neither case: it is
\* answered 500, and it too asks for nothing and leaves the sessions alone.)
C6_LoadVideoFailures ==
    [][\A r \in DOMAIN req' : (Moved(r) /\ req'[r].endpoint = "/load_video") =>
        LET q == req'[r]
        IN  /\ (Arrived(r) /\ q.vid \in {None, <<>>}) =>
                /\ q.pc = "done"
                /\ q.status = 400
                /\ q.body.detail = "Invalid YouTube URL"
                /\ q.contacted = <<>>
                /\ gcs' = gcs
                /\ sessions' = sessions
            /\ (Arrived(r) /\ q.vid = ValueError) =>
                /\ q.pc = "done"
                /\ q.status = 500
                /\ q.contacted = <<>>
                /\ gcs' = gcs
                /\ sessions' = sessions
            /\ (Arrived(r) /\ q.vid \notin {None, <<>>, ValueError}) => q.pc = "cache"
            /\ (q.pc = "done" /\ q.contacted # <<>> /\ q.transcript = None) =>
                /\ q.status = 200
                /\ q.body = [status |-> "transcript_unavailable",
                             reason |-> UNAVAILABLE_REASON,
                             video_id |-> q.vid]
                /\ q.session_id = 0
                /\ sessions' = sessions
            /\ sessions' # sessions =>
                /\ q.pc = "done"
                /\ q.status = 200
                /\ q.transcript # None
                /\ q.body.session_id = q.session_id
      ]_vars

\* an empty id was extracted and refused while a session exists, and
\* another request found no transcript
C6_Witness ==
    \E r1, r2 \in DOMAIN req :
        /\ req[r1].endpoint = "/load_video"
        /\ req[r1].vid = <<>>
        /\ req[r1].status = 400
        /\ req[r2].endpoint = "/load_video"
        /\ req[r2].pc = "done"
        /\ req[r2].vid = Video1
        /\ req[r2].transcript = None
        /\ DOMAIN sessions # {}

-----------------------------------------------------------------------------
(* SpecFetch: the transcript sources, under every combination of what the  *)
(* cache, the captions API, the audio pipeline and speech-to-text do, for  *)
(* overlapping requests.  The bucket outlives the process, so a run may    *)
(* start with a blob in it.                                                *)

FetchUrls == {UrlEmpty, UrlRegex1}

StoredBefore == {NoBlob, <<>>, <<"z">>}

InitFetch ==
    /\ sessions = <<>>
    /\ heap = <<>>
    /\ log = <<>>
    /\ embedder = 1
    /\ req = <<>>
    /\ saves = <<>>
    /\ call = NoCall
    /\ ret = NoCall
    /\ \E old \in StoredBefore :
         gcs = [path \in GcsPaths |->
                   IF path = GcsTranscriptPath(Video1) THEN old ELSE NoBlob]

FetchLoadRequest ==
    /\ Len(req) < MaxFetchLoads
    /\ \E url \in FetchUrls : LoadArrive(url)

NextFetch == FetchLoadRequest \/ LoadSteps

SpecFetch == InitFetch /\ [][NextFetch]_vars

\* the object exists and is not empty
HoldsText(store, path) == store[path] # NoBlob /\ store[path] # <<>>

FirstText(y) ==
    IF Truthy(y.cache) THEN y.cache
    ELSE IF Truthy(y.captions) THEN y.captions
    ELSE IF Truthy(y.stt) THEN y.stt
    ELSE None

Asked(q, source) == \E i \in 1..Len(q.contacted) : q.contacted[i] = source

\* get_youtube_transcript was called and has returned
Fetched(q) ==
    /\ q.endpoint = "/load_video"
    /\ q.contacted # <<>>
    /\ q.pc \in {"store", "done"}

\* C2: get_youtube_transcript asks the cache, then the captions, then audio
\* download and speech-to-text; it asks a source only when every earlier one
\* gave no non-empty text; it returns the text of the first source that gives
\* one, and None, never an empty text, exactly when none does.
C2_SourcesInOrder ==
    \A r \in DOMAIN req :
        LET q == req[r]
        IN  /\ q.contacted \in {<<>>, <<"gcs">>, <<"gcs", "captions">>,
                                <<"gcs", "captions", "audio">>,
                                <<"gcs", "captions", "audio", "stt">>}
            /\ Asked(q, "captions") => ~ Truthy(q.got.cache)
            /\ Asked(q, "audio") =>
                    ~ Truthy(q.got.cache) /\ ~ Truthy(q.got.captions)
            /\ Fetched(q) =>
                /\ Asked(q, "captions") <=> ~ Truthy(q.got.cache)
                /\ Asked(q, "audio") <=>
                        ~ Truthy(q.got.cache) /\ ~ Truthy(q.got.captions)
                /\ q.transcript = FirstText(q.got)
                /\ q.transcript # <<>>
                /\ q.transcript = None <=>
                        /\ ~ Truthy(q.got.cache)
                        /\ ~ Truthy(q.got.captions)
                        /\ ~ Truthy(q.got.stt)

\* the cache holds a transcript but cannot be read, the captions give
\* nothing, and speech-to-text gives the text
C2_Witness ==
    \E r \in DOMAIN req :
        /\ Fetched(req[r])
        /\ req[r].gcs_read = "error"
        /\ HoldsText(gcs, GcsTranscriptPath(req[r].vid))
        /\ req[r].source = "stt"
        /\ req[r].contacted = <<"gcs", "captions", "audio", "stt">>

-----------------------------------------------------------------------------
(* SpecCache: the transcript cache under overlapping /load_video requests  *)
(* for one video; a read and a write of the bucket may each fail.  The     *)
(* bucket is empty when the process starts.  So that three and four calls  *)
(* fit in the bound, a behaviour starts from a state two requests reach    *)
(* from there.  The first found no cache, got the text of the captions,    *)
(* wrote it or failed to, and has been answered.  The second missed the    *)
(* cache, found no captions and is about to write the text speech-to-text  *)
(* gave it; it began while the first was in progress or after the first    *)
(* was answered, and its lookup found nothing or raised.                   *)

CacheUrls == {UrlWatchEncoded}

FirstLoad ==
    [endpoint |-> "/load_video", pc |-> "cache", vid |-> Video1,
     transcript |-> None, source |-> "none", contacted |-> <<>>,
     got |-> [cache |-> None, captions |-> None, stt |-> None],
     gcs_read |-> "none", gcs_write |-> "none", saved |-> <<>>,
     session_id |-> 0, before |-> {}, status |-> 0, body |-> NoBody]

\* the first request after LoadCacheExists, LoadCaptions, LoadSave and
\* LoadStore
FirstLoadDone(gcs_write) ==
    LET text == CaptionsText(TextItems)
        chunks == ChunkText(text, CHUNK_SIZE, CHUNK_OVERLAP)
    IN  [FirstLoad EXCEPT !.pc = "done",
                          !.transcript = text,
                          !.source = "captions",
                          !.contacted = <<"gcs", "captions">>,
                          !.got = [cache |-> None, captions |-> text, stt |-> None],
                          !.gcs_read = "ok",
                          !.gcs_write = gcs_write,
                          !.saved = <<text>>,
                          !.session_id = 1,
                          !.status = 200,
                          !.body = [session_id |-> 1, n_chunks |-> Len(chunks)]]

\* the second request after LoadCacheExists, LoadCaptions, LoadAudio and
\* LoadTranscribe
SecondLoadAtSave(before, gcs_read) ==
    [FirstLoad EXCEPT !.pc = "save",
                      !.transcript = TranscribeFromGcsUri(SttParts),
                      !.source = "stt",
                      !.contacted = <<"gcs", "captions", "audio", "stt">>,
                      !.got = [cache |-> None, captions |-> CaptionsText(NoItems),
                               stt |-> TranscribeFromGcsUri(SttParts)],
                      !.gcs_read = gcs_read,
                      !.before = before]

\* a second request that began after the first had written its text and
\* could read the cache would have been served from it
InitCache ==
    /\ embedder = 1
    /\ call = NoCall
    /\ ret = NoCall
    /\ \E gcs_write \in GcsOutcomes, before \in {{}, {1}}, gcs_read \in GcsOutcomes :
        /\ ~ (gcs_write = "ok" /\ before = {1} /\ gcs_read = "ok")
        /\ req = <<FirstLoadDone(gcs_write), SecondLoadAtSave(before, gcs_read)>>
        /\ gcs = UploadFileToGcs(
                    SaveTranscriptToGcs([path \in GcsPaths |-> NoBlob], Video1,
                                        CaptionsText(TextItems), gcs_write),
                    GcsAudioPath(Video1))
        /\ saves = IF gcs_write = "ok"
                   THEN <<[by |-> 1, vid |-> Video1, text |-> CaptionsText(TextItems)]>>
                   ELSE <<>>
    /\ sessions = (1 :> NewSession(Video1,
                          ChunkText(CaptionsText(TextItems), CHUNK_SIZE, CHUNK_OVERLAP), 1))
    /\ heap = <<<<>>>>
    /\ log = (1 :> <<>>)

CacheLoadRequest ==
    /\ Len(req) < MaxCacheLoads + 2
    /\ \E url \in CacheUrls : LoadArrive(url)

NextCache == CacheLoadRequest \/ LoadSteps

SpecCache == InitCache /\ [][NextCache]_vars

\* the writes of the cache under video_id that succeeded, oldest first
SavesOf(video_id) == SelectSeq(saves, LAMBDA w : w.vid = video_id)

\* the cache holds under each video the text of the last write that succeeded
LastWriteKept ==
    \A v \in Videos :
        SavesOf(v) # <<>> =>
            gcs[GcsTranscriptPath(v)] = SavesOf(v)[Len(SavesOf(v))].text

\* call b got its text from the captions or from speech-to-text, wrote it to
\* the cache and has returned
WroteCache(q, b) ==
    /\ Fetched(q[b])
    /\ q[b].source \in {"captions", "stt"}
    /\ q[b].gcs_write = "ok"

\* C7 as stated: when get_youtube_transcript(v) returned a text t from the
\* captions or from speech-to-text and its write succeeded, every later
\* get_youtube_transcript(v), the cache being readable, returns t from the
\* cache and contacts nothing else.
C7_AsStated ==
    (\A d \in DOMAIN req : req[d].gcs_read # "error") =>
        \A b, c \in DOMAIN req :
            (/\ WroteCache(req, b)
             /\ b \in req[c].before
             /\ Fetched(req[c])
             /\ req[c].vid = req[b].vid)
            => /\ req[c].transcript = req[b].transcript
               /\ req[c].source = "cache"
               /\ req[c].contacted = <<"gcs">>

\* C7 amended: a call that returns a text from the captions or from
\* speech-to-text has first tried to write it to the cache under the video
\* id, and a write that fails is swallowed; the cache holds under a video id
\* the text of the last write that succeeded.  When the write of t under v
\* succeeded, a call for v that reads the cache afterwards, its read
\* succeeding, returns the text the cache then holds, from the cache, asking
\* no other source; that text is t unless calls that had missed the cache,
\* each one begun before the writer of t returned or unable to read the
\* cache, have written theirs over it since.  A call served from the cache
\* writes nothing.
C7_TranscriptsCached ==
    /\ [] LastWriteKept
    /\ [][\A r \in DOMAIN req' : Moved(r) =>
            LET q == req'[r]
                path == GcsTranscriptPath(q.vid)
                w == SavesOf(q.vid)
            IN  /\ (~ Arrived(r) /\ req[r].pc = "save") =>
                    /\ q.saved = <<q.transcript>>
                    /\ q.transcript = req[r].transcript
                    /\ q.pc = "store"
                    /\ q.gcs_write = "ok" => gcs'[path] = q.transcript
                    /\ q.gcs_write = "error" => gcs' = gcs
                /\ (Fetched(q) /\ q.source \in {"captions", "stt"}) =>
                    q.saved = <<q.transcript>>
                /\ (~ Arrived(r) /\ req[r].pc = "cache" /\ q.gcs_read = "ok") =>
                    \A b \in DOMAIN req :
                        (WroteCache(req, b) /\ req[b].vid = q.vid) =>
                            q.pc = "download"
                /\ (~ Arrived(r) /\ req[r].pc = "download" /\ q.gcs_read = "ok") =>
                    \A b \in DOMAIN req :
                        (WroteCache(req, b) /\ req[b].vid = q.vid) =>
                            LET i == CHOOSE i \in 1..Len(w) : w[i].by = b
                            IN  /\ q.source = "cache"
                                /\ q.contacted = <<"gcs">>
                                /\ q.pc = "store"
                                /\ w[i].text = req[b].transcript
                                /\ q.transcript = gcs[path]
                                /\ q.transcript = w[Len(w)].text
                                /\ i = Len(w) => q.transcript = req[b].transcript
                                /\ \A j \in (i + 1)..Len(w) :
                                     LET a == w[j].by
                                     IN  /\ a \notin {b, r}
                                         /\ req[a].source \in {"captions", "stt"}
                                         /\ \/ b \notin req[a].before
                                            \/ req[a].gcs_read = "error"
                /\ q.source = "cache" =>
                    /\ q.saved = <<>>
                    /\ q.contacted = <<"gcs">>
                    /\ (~ Arrived(r) /\ req[r].pc = "download") => gcs' = gcs
         ]_vars

\* a call is served from the cache the text a call that had returned before
\* it began wrote, while a third call, which overlapped, got another text
\* and could not write it
C7_Witness ==
    \E a, b, c \in DOMAIN req :
        /\ WroteCache(req, b)
        /\ b \in req[c].before
        /\ Fetched(req[c])
        /\ req[c].source = "cache"
        /\ req[c].transcript = req[b].transcript
        /\ Fetched(req[a])
        /\ req[a].gcs_write = "error"
        /\ req[a].transcript \notin {None, req[b].transcript}

-----------------------------------------------------------------------------
(* SpecChunk: chunk_text on every text, chunk size and overlap in the bounds *)

Chars == {" ", "\t", "a"}

\* the arguments of the call: overlap = -1 is outside what /load_video
\* passes, and has the loop end on its guard
InitChunk ==
    /\ sessions = <<>>
    /\ heap = <<>>
    /\ log = <<>>
    /\ embedder = 1
    /\ gcs = [path \in GcsPaths |-> NoBlob]
    /\ req = <<>>
    /\ saves = <<>>
    /\ ret = NoCall
    /\ \E n \in 0..MaxTextLen, chunk_size \in 1..MaxChunkSize :
        \E text \in [1..n -> Chars], overlap \in (-1)..(chunk_size - 1) :
            call = [endpoint |-> "chunk_text", text |-> text,
                    chunk_size |-> chunk_size, overlap |-> overlap]

CallChunkText ==
    /\ call.endpoint = "chunk_text"
    /\ ret = NoCall
    /\ ret' = [endpoint |-> "chunk_text",
               chunks |-> ChunkText(call.text, call.chunk_size, call.overlap)]
    /\ UNCHANGED <<sessions, heap, gcs, embedder, req, log, saves, call>>

NextChunk == CallChunkText

SpecChunk == InitChunk /\ [][NextChunk]_vars

\* c is s without its leading and trailing whitespace
IsStripOf(c, s) ==
    /\ c = <<>> \/ (c[1] \notin Whitespace /\ c[Len(c)] \notin Whitespace)
    /\ \E a \in 0..Len(s) :
        /\ a + Len(c) <= Len(s)
        /\ \A j \in 1..Len(c) : c[j] = s[a + j]
        /\ \A j \in 1..Len(s) : (j <= a \/ j > a + Len(c)) => s[j] \in Whitespace

\* the character positions 1..Len(text) of slice i (i from 1)
SlicePositions(i, text, chunk_size, overlap) ==
    LET lo == (i - 1) * (chunk_size - overlap)
        hi == IF lo + chunk_size < Len(text) THEN lo + chunk_size ELSE Len(text)
    IN  (lo + 1)..hi

SliceOf(i, text, chunk_size, overlap) ==
    LET at == SlicePositions(i, text, chunk_size, overlap)
    IN  [j \in 1..Cardinality(at) |-> text[(i - 1) * (chunk_size - overlap) + j]]

\* C3: with 0 <= overlap < chunk_size, for a text longer than chunk_size, chunk i is the stripped slice of
\* chunk_size characters starting at i * (chunk_size - overlap); no chunk is
\* longer than chunk_size, consecutive slices share exactly overlap
\* characters, the last slice reaches the end of the text and every position
\* lies in a slice; a text of at most chunk_size characters is the one chunk.
C3_FixedSizeSlices ==
    (ret.endpoint = "chunk_text" /\ 0 <= call.overlap
            /\ call.overlap < call.chunk_size) =>
        LET text == call.text
            chunks == ret.chunks
            cs == call.chunk_size
            ov == call.overlap
            at(i) == SlicePositions(i, text, cs, ov)
        IN  IF Len(text) <= cs THEN chunks = <<text>>
            ELSE /\ Len(chunks) >= 1
                 /\ \A i \in 1..Len(chunks) :
                        /\ IsStripOf(chunks[i], SliceOf(i, text, cs, ov))
                        /\ Len(chunks[i]) <= cs
                        /\ (i - 1) * (cs - ov) < Len(text)
                 /\ \A i \in 1..(Len(chunks) - 1) :
                        Cardinality(at(i) \cap at(i + 1)) = ov
                 /\ (Len(chunks) - 1) * (cs - ov) + cs >= Len(text)
                 /\ \A p \in 1..Len(text) : \E i \in 1..Len(chunks) : p \in at(i)

\* three or more overlapping slices, one of them shortened by the strip
C3_Witness ==
    /\ ret.endpoint = "chunk_text"
    /\ call.overlap >= 1
    /\ Len(ret.chunks) >= 3
    /\ \E i \in 1..Len(ret.chunks) :
        /\ ret.chunks[i] # <<>>
        /\ Len(ret.chunks[i]) < Cardinality(SlicePositions(i, call.text, call.chunk_size,
                                                    call.overlap))

-----------------------------------------------------------------------------
(* SpecHist: /chat requests on one session, one after the other: a request *)
(* arrives when every earlier one has been answered.  The initial states   *)
(* are those n such requests lead to.                                      *)

HistCounts == {0, HISTORY_LIMIT - 1, HISTORY_LIMIT, HISTORY_LIMIT + 3}

HistQueries == {<<"\t", "\n">>, <<" ", "a">>, <<"b", "\r">>}

Min2(a, b) == IF a < b THEN a ELSE b

InitHist ==
    /\ embedder = 1
    /\ Quiet
    /\ sessions = (1 :> NewSession(Video1, <<<<"a", "b", " ", "c">>>>, 1))
    /\ \E n \in HistCounts :
        /\ heap = <<OldHistory(n)>>
        /\ log = (1 :> OldLog(n))

HistChatRequest ==
    /\ Idle
    /\ Len(req) < MaxHistChats
    /\ \E raw_query \in HistQueries : ChatArrive(1, raw_query, "low")

NextHist == HistChatRequest \/ ChatSteps

SpecHist == InitHist /\ [][NextHist]_vars

\* the history holds the last min(n, HISTORY_LIMIT) of the n successful
\* turns, in call order, each as the pair Entry(turn) makes of it
HistoryIs(Entry(_)) ==
    \A s \in DOMAIN sessions :
        LET n == Len(log[s])
            k == Min2(n, HISTORY_LIMIT)
            h == Hist(s)
        IN  /\ Len(h) = k
            /\ \A i \in 1..k : Entry(<<h[i], log[s][n - k + i]>>)

StrippedPair(p) ==
    /\ IsStripOf(p[1][1], p[2].query)
    /\ IsStripOf(p[1][2], p[2].text)

RawAnswerPair(p) ==
    /\ IsStripOf(p[1][1], p[2].query)
    /\ p[1][2] = p[2].text

\* C1 as stated: after n successful sequential /chat calls the history holds
\* exactly min(n, 40) entries, the (stripped query, raw LLM answer) pairs of
\* the most recent min(n, 40) successful calls in call order.
C1_AsStated == Idle => HistoryIs(RawAnswerPair)

\* C1 amended: ... the (stripped query, stripped LLM answer) pairs of the most
\* recent min(n, 40) successful calls in call order.
C1_HistoryBounded == Idle => HistoryIs(StrippedPair)

\* more than 40 turns succeeded, the last one with an answer the strip changed
C1_Witness ==
    /\ Idle
    /\ req # <<>>
    /\ req[Len(req)].status = 200
    /\ Len(log[1]) > HISTORY_LIMIT
    /\ log[1][Len(log[1])].by = Len(req)
    /\ req[Len(req)].answer # req[Len(req)].llm_text

-----------------------------------------------------------------------------
(* SpecRetrieve: retrieval over sessions of few, of TOP_K and of more than  *)
(* TOP_K chunks.  The behaviours start after the /load_video of a long     *)
(* transcript, mostly spaces, with one letter in the part of each slice    *)
(* that no other slice covers, and none in some slices, whose chunk is     *)
(* then empty, after HISTORY_LIMIT /chat requests on that session, and     *)
(* after the /load_video of a short transcript.                            *)

SparseLetter(i) ==
    IF i % 5 = 3 THEN " " ELSE <<"a", "b", "c">>[(i % 3) + 1]

SparseText(n) ==
    <<>> \o [p \in 1..((n - 1) * (CHUNK_SIZE - CHUNK_OVERLAP) + CHUNK_OVERLAP + 1) |->
                IF p = 1 THEN "a"
                ELSE IF p > CHUNK_SIZE
                        /\ (p - 1) % (CHUNK_SIZE - CHUNK_OVERLAP) = CHUNK_OVERLAP
                     THEN SparseLetter((p - 1) \div (CHUNK_SIZE - CHUNK_OVERLAP))
                     ELSE " "]

RetrieveSizes == {5, TOP_K, TOP_K + 1}

RetrieveQueries == {<<"a">>, <<"c", "c", " ">>}

InitRetrieve ==
    /\ embedder \in {1, 2}
    /\ Quiet
    /\ \E n \in RetrieveSizes :
        sessions =
            (1 :> NewSession(Video2, ChunkText(SparseText(n), CHUNK_SIZE, CHUNK_OVERLAP), 1))
            @@ (2 :> NewSession(Video1, <<<<"a", "b", " ", "c">>>>, 2))
    /\ heap = <<OldHistory(HISTORY_LIMIT), <<>>>>
    /\ log = (1 :> OldLog(HISTORY_LIMIT)) @@ (2 :> <<>>)

RetrieveChatRequest ==
    /\ Len(req) < MaxRetrieveCalls
    /\ \E session_id \in DOMAIN sessions, raw_query \in RetrieveQueries,
          tie \in {"low", "high"} :
            ChatArrive(session_id, raw_query, tie)

NextRetrieve == RetrieveChatRequest \/ ChatSteps

SpecRetrieve == InitRetrieve /\ [][NextRetrieve]_vars

\* the /chat request searched its session
Searched(q) == q.endpoint = "/chat" /\ q.q_emb # None

FoundIds(q) == {q.ids[j] : j \in 1..Len(q.ids)} \ {-1}

\* the non-empty chunks of the ids found, in the order found
RECURSIVE ChunksOfIds(_, _)
ChunksOfIds(id2chunk, ids) ==
    IF ids = <<>> THEN <<>>
    ELSE IF ids[1] >= 0 /\ id2chunk[ids[1] + 1] # <<>>
         THEN <<id2chunk[ids[1] + 1]>> \o ChunksOfIds(id2chunk, Tail(ids))
         ELSE ChunksOfIds(id2chunk, Tail(ids))

\* C8: /chat retrieves from the session it names the min(TOP_K, n_chunks)
\* chunks of greatest inner product with the query vector, in descending
\* score order, each once, before any padding id, skipping padding ids and
\* empty chunks; so
\* retrieved_count <= min(50, n_chunks), and a session of at most 50 chunks
\* has every non-empty chunk in the context.
C8_TopKRetrieval ==
    \A r \in DOMAIN req : Searched(req[r]) =>
        LET q == req[r]
            session == sessions[q.session_id]
            n == Len(session.id2chunk)
            k == Min2(TOP_K, n)
            found == FoundIds(q)
            scores == <<>> \o [i \in 1..n |-> Dot(session.index[i], q.q_emb)]
            score(id) == scores[id + 1]
        IN  /\ n = session.meta.n_chunks
            /\ found \subseteq 0..(n - 1)
            /\ Cardinality(found) = k
            /\ Cardinality({j \in 1..Len(q.ids) : q.ids[j] >= 0}) = k
            /\ \A i \in found : \A j \in (0..(n - 1)) \ found :
                    score(i) >= score(j)
            /\ \A a \in 1..(Len(q.ids) - 1) :
                    q.ids[a + 1] >= 0 =>
                        /\ q.ids[a] >= 0
                        /\ score(q.ids[a]) >= score(q.ids[a + 1])
            /\ q.retrieved = ChunksOfIds(session.id2chunk, q.ids)
            /\ Len(q.retrieved) <= k
            /\ q.status = 200 => q.body.retrieved_count = Len(q.retrieved)
            /\ n <= TOP_K =>
                    \A i \in 1..n :
                        session.id2chunk[i] # <<>> =>
                            \E j \in 1..Len(q.retrieved) :
                                q.retrieved[j] = session.id2chunk[i]

\* a session of more than TOP_K chunks, some empty, some scoring differently:
\* one chunk is left out and fewer than TOP_K are in the context
C8_Witness ==
    \E r \in DOMAIN req :
        /\ Searched(req[r])
        /\ req[r].status = 200
        /\ Len(sessions[req[r].session_id].id2chunk) > TOP_K
        /\ req[r].body.retrieved_count < TOP_K
        /\ req[r].body.retrieved_count > 0
        /\ \E i, j \in FoundIds(req[r]) :
                Dot(sessions[req[r].session_id].index[i + 1], req[r].q_emb)
                    > Dot(sessions[req[r].session_id].index[j + 1], req[r].q_emb)

-----------------------------------------------------------------------------
(* SpecConc: overlapping /chat requests on one session.                    *)
(* session["history"] names a list object; the statements of lines 165-195 *)
(* read that name several times, and the interpreter may switch threads    *)
(* between any two of the reads and writes.                                *)

ConcSession == 1

\* the histories the requests find: turns of earlier, sequential requests
ConcCounts == {HISTORY_LIMIT - 2, HISTORY_LIMIT}

ConcQuery(r) == Append([i \in 1..r |-> "q"], " ")

InitConc ==
    /\ embedder = 1
    /\ Quiet
    /\ sessions = (ConcSession :> NewSession(Video1, <<<<"a", "b", " ", "c">>>>, 1))
    /\ \E n \in ConcCounts :
        /\ heap = <<OldHistory(n)>>
        /\ log = (ConcSession :> OldLog(n))

ConcArrive ==
    /\ Len(req) < MaxRequests
    /\ \E session_id \in {ConcSession, ConcSession + 1},
          raw_query \in {ConcQuery(Len(req) + 1), <<" ">>}, tie \in {"low", "high"} :
            ChatArrive(session_id, raw_query, tie)

NextConc == ConcArrive \/ ChatSteps

SpecConc == InitConc /\ [][NextConc]_vars

\* every request that arrived has been answered
Quiescent == req # <<>> /\ Idle

Succeeded(r) == req[r].status = 200

TurnOf(r) == <<req[r].query, req[r].answer>>

\* the turns appended to the histories of session s, oldest first
Appended(s) == [i \in 1..Len(log[s]) |-> log[s][i].turn]

Holds(history, turn) == \E i \in 1..Len(history) : history[i] = turn

\* s is t with some items left out
RECURSIVE IsSubsequence(_, _)
IsSubsequence(s, t) ==
    IF s = <<>> THEN TRUE
    ELSE IF t = <<>> THEN FALSE
    ELSE IF s[1] = t[1] THEN IsSubsequence(Tail(s), Tail(t))
    ELSE IsSubsequence(s, Tail(t))

\* C9 as stated: once all requests have finished, the history has at most 40
\* entries and holds the turn of every successful request that is among the
\* 40 most recently appended.
C9_AsStated ==
    Quiescent =>
        /\ Len(Hist(ConcSession)) <= HISTORY_LIMIT
        /\ \A r \in DOMAIN req :
                (Succeeded(r) /\ Holds(LastN(Appended(ConcSession), HISTORY_LIMIT), TurnOf(r)))
                    => Holds(Hist(ConcSession), TurnOf(r))

\* C9, amended: once all concurrent /chat requests on a session have
\* finished, its history has at most 40 entries, all of them turns that were
\* appended, in the order they were appended, and no turn is missing as long
\* as no more than 40 were ever appended; a turn appended while another
\* request truncates may be lost.
C9_BoundedUnderConcurrency ==
    /\ IsSubsequence(Hist(ConcSession), Appended(ConcSession))
    /\ Quiescent =>
        /\ Len(Hist(ConcSession)) <= HISTORY_LIMIT
        /\ Len(Appended(ConcSession)) <= HISTORY_LIMIT =>
                Hist(ConcSession) = Appended(ConcSession)

\* two requests succeeded, one truncated the history, and the turn of the
\* other, among the newest 40, is not in it
C9_Witness ==
    /\ Quiescent
    /\ Len(heap) > 1
    /\ \E r1, r2 \in DOMAIN req :
        /\ r1 # r2
        /\ Succeeded(r1)
        /\ Succeeded(r2)
        /\ Holds(Hist(ConcSession), TurnOf(r1))
        /\ Holds(LastN(Appended(ConcSession), HISTORY_LIMIT), TurnOf(r2))
        /\ ~ Holds(Hist(ConcSession), TurnOf(r2))

====
